---- MODULE Spec2Model ----
(***************************************************************************)
(* Model of package xtoken: the token generator (NewWithTime and the       *)
(* shared objectIDCounter), the offset-based codec (encode / decode) and   *)
(* the text unmarshalling entry points (String, FromString,                *)
(* UnmarshalText).                                                         *)
(*                                                                         *)
(* Bytes are naturals in 0..255 and every shift keeps Go's uint8 width.    *)
(* A Token is a sequence of 12 bytes; Go index b is TLA+ index b+1.  A     *)
(* text is a sequence of byte values (character codes), Go offset o is     *)
(* TLA+ index o+1.                                                         *)
(***************************************************************************)
EXTENDS Integers, Sequences, FiniteSets, TLC

VARIABLES
    objectIDCounter,  \* the shared uint32 counter
    machineID,        \* 3 bytes, fixed at process start
    pid,              \* process id (int), fixed at process start
    pc,               \* per goroutine: position inside NewWithTime
    loc,              \* per goroutine: locals of NewWithTime (token, i)
    obtained,         \* values returned by atomic.AddUint32, in order
    tokens,           \* tokens returned by NewWithTime, in return order
    start,            \* value of objectIDCounter when observation starts
    id,               \* the Token handed to String()
    orderIdxs,        \* encode's orderIdxs after the shuffle
    text,             \* the text produced by String / given to decoding
    recv,             \* the caller's Token (FromString result / receiver)
    err,              \* "none" (no call yet), "nil" or "ErrInvalidToken"
    panicked,         \* TRUE when the call ended in a runtime panic
    phase             \* position of the codec scenario

vars == <<objectIDCounter, machineID, pid, pc, loc, obtained, tokens, start,
          id, orderIdxs, text, recv, err, panicked, phase>>

genVars == <<objectIDCounter, machineID, pid, pc, loc, obtained, tokens, start>>
codecVars == <<id, orderIdxs, text, recv, err, panicked, phase>>

(***************************************************************************)
(* Bounds of the model.                                                    *)
(***************************************************************************)
NumGoroutines == 2   \* goroutines calling NewWithTime concurrently
MaxCalls == 3        \* NewWithTime calls started in one behaviour
MaxSwaps == 1        \* shuffle steps that really exchange two entries
MaxEdits == 1        \* characters altered in a base text given to decoding

(***************************************************************************)
(* Program constants.                                                      *)
(***************************************************************************)
encodedLen == 32
rawLen == 12
encodingIdxMax == 63

\* uint8 / uint32 arithmetic
Pow2(n) == 2 ^ n
Shl(x, k) == (x * Pow2(k)) % 256
Shr(x, k) == x \div Pow2(k)
Bit(x, k) == (x \div Pow2(k)) % 2
RECURSIVE OrFrom(_, _, _)
OrFrom(a, b, k) ==
    IF k > 7 THEN 0
    ELSE (IF Bit(a, k) = 1 \/ Bit(b, k) = 1 THEN Pow2(k) ELSE 0) + OrFrom(a, b, k + 1)
Or(a, b) == OrFrom(a, b, 0)
MaskNarrow(x) == x % 16
Mask(x) == x % (encodingIdxMax + 1)

\* the alphabet "aAbBcC...zZ0123456789-_" as character codes, index 0..63
encoding ==
    [i \in 0..63 |->
        IF i < 52 THEN (IF i % 2 = 0 THEN 97 + (i \div 2) ELSE 65 + (i \div 2))
        ELSE IF i < 62 THEN 48 + (i - 52)
        ELSE IF i = 62 THEN 45 ELSE 95]

\* init(): dec[c] = 0xFF for every c, then dec[encoding[i]] = i
dec ==
    [c \in 0..255 |->
        IF \E i \in 0..63 : encoding[i] = c
        THEN CHOOSE i \in 0..63 : encoding[i] = c
        ELSE 255]

nilToken == [b \in 1..rawLen |-> 0]

\* initial contents of orderIdxs in encode (Go indices 0..11 are 1..12 here)
InitialOrderIdxs == <<0, 3, 5, 7, 9, 11, 17, 19, 21, 23, 27, 31>>

\* the fixed offsets encode writes the 12 order characters to, in code order
PointerOffsets == <<2, 13, 22, 30, 6, 15, 26, 10, 18, 1, 14, 25>>

\* the swap callback handed to mathRand.Shuffle
SwapBroken(ord, i, j) == [ord EXCEPT ![i + 1] = ord[j + 1]]
Swap(ord, i, j) == [ord EXCEPT ![i + 1] = ord[j + 1], ![j + 1] = ord[i + 1]]

\* mathRand.Shuffle(n, swap): for i = n-1 down to 1, swap(i, j) with j drawn
\* from 0..i.  draws[i] is the set of values the i-th draw ranges over; the
\* result is the set of orders the shuffle can leave behind.
RECURSIVE Shuffle(_, _, _)
Shuffle(ord, i, draws) ==
    IF i = 0 THEN {ord}
    ELSE UNION { Shuffle(Swap(ord, i, j), i - 1, draws) : j \in draws[i] }

\* The draws explored: every run of the shuffle in which at most MaxSwaps
\* steps draw j # i (any j), and three runs in which every step exchanges
\* two entries.
ShuffleSteps == 1..(Len(InitialOrderIdxs) - 1)
DrawSets ==
    { [i \in ShuffleSteps |-> IF i \in S THEN 0..(i - 1) ELSE {i}] :
          S \in {T \in SUBSET ShuffleSteps : Cardinality(T) <= MaxSwaps} }
    \cup { [i \in ShuffleSteps |-> {0}],
           [i \in ShuffleSteps |-> {i - 1}],
           [i \in ShuffleSteps |-> {i \div 2}] }

ShuffleOutcomes ==
    UNION { Shuffle(InitialOrderIdxs, Len(InitialOrderIdxs) - 1, d) : d \in DrawSets }

\* the 20 data values of encode, in the order of the statements at lines
\* 348..367 (which is the order of the groups in the bit stream)
DataValue(t, k) ==
    CASE k = 0  -> Mask(Shr(t[1], 3))
      [] k = 1  -> Or(Shr(t[2], 6), Mask(Shl(t[1], 2)))
      [] k = 2  -> Mask(Shr(t[2], 1))
      [] k = 3  -> Or(Shr(t[3], 4), Mask(Shl(t[2], 4)))
      [] k = 4  -> Or(Shr(t[4], 7), Mask(Shl(t[3], 1)))
      [] k = 5  -> Mask(Shr(t[4], 2))
      [] k = 6  -> Or(Shr(t[5], 5), Mask(Shl(t[4], 3)))
      [] k = 7  -> Mask(t[5])
      [] k = 8  -> Shr(t[6], 3)
      [] k = 9  -> Or(Shr(t[7], 6), Mask(Shl(t[6], 2)))
      [] k = 10 -> Mask(Shr(t[7], 1))
      [] k = 11 -> Or(Shr(t[8], 4), Mask(Shl(t[7], 4)))
      [] k = 12 -> Or(Shr(t[9], 7), Mask(Shl(t[8], 1)))
      [] k = 13 -> Mask(Shr(t[9], 2))
      [] k = 14 -> Or(Shr(t[10], 5), Mask(Shl(t[9], 3)))
      [] k = 15 -> Mask(t[10])
      [] k = 16 -> Shr(t[11], 3)
      [] k = 17 -> Or(Shr(t[12], 6), Mask(Shl(t[11], 2)))
      [] k = 18 -> Mask(Shr(t[12], 1))
      [] k = 19 -> Mask(Shl(t[12], 4))

\* the offset each of the 20 data statements writes to
DataOffset(ord, k) ==
    CASE k = 0  -> ord[1]
      [] k = 1  -> ord[2]
      [] k = 2  -> ord[3]
      [] k = 3  -> ord[4]
      [] k = 4  -> 4
      [] k = 5  -> 8
      [] k = 6  -> ord[5]
      [] k = 7  -> ord[6]
      [] k = 8  -> ord[7]
      [] k = 9  -> 12
      [] k = 10 -> 16
      [] k = 11 -> ord[8]
      [] k = 12 -> ord[9]
      [] k = 13 -> 20
      [] k = 14 -> ord[10]
      [] k = 15 -> 24
      [] k = 16 -> ord[11]
      [] k = 17 -> 28
      [] k = 18 -> ord[12]
      [] k = 19 -> 29

\* the 32 assignments to dst made by encode, in program order (12 order
\* characters, then 20 data characters): the offset and the character of
\* the n-th one
WriteOffset(ord, n) ==
    IF n <= 12 THEN PointerOffsets[n] ELSE DataOffset(ord, n - 13)
WriteChar(t, ord, n) ==
    IF n <= 12 THEN encoding[ord[n]] ELSE encoding[DataValue(t, n - 13)]

\* dst after encode: make([]byte, encodedLen) is all zero, the last write
\* to an offset wins
encode(t, ord) ==
    [o \in 1..encodedLen |->
        LET hits == {n \in 1..32 : WriteOffset(ord, n) = o - 1}
        IN  IF hits = {} THEN 0
            ELSE WriteChar(t, ord, CHOOSE n \in hits : \A m \in hits : m <= n)]

\* dec[src[o]] and dec[src[dec[src[p]]]]
D(src, o) == dec[src[o + 1]]
IndDirect(src, p) == dec[src[p + 1]]
Ind(src, p) == dec[src[D(src, p) + 1]]

\* the pointer offsets whose target the assignment to token[b] reads
PtrsOf(b) ==
    CASE b = 11 -> {25}
      [] b = 10 -> {14}
      [] b = 9  -> {1}
      [] b = 8  -> {18, 1}
      [] b = 7  -> {10, 18}
      [] b = 6  -> {10}
      [] b = 5  -> {26}
      [] b = 4  -> {6, 15}
      [] b = 3  -> {6}
      [] b = 2  -> {30}
      [] b = 1  -> {13, 22, 30}
      [] b = 0  -> {2, 13}

\* the right-hand side of the assignment to token[b] in decode
ByteExpr(src, b) ==
    CASE b = 11 -> Or(Or(Shl(D(src, 28), 6), Shl(Ind(src, 25), 1)), Shr(D(src, 29), 4))
      [] b = 10 -> Or(Shl(Ind(src, 14), 3), Shr(D(src, 28), 2))
      [] b = 9  -> Or(Shl(Ind(src, 1), 5), D(src, 24))
      [] b = 8  -> Or(Or(Shl(Ind(src, 18), 7), Shl(D(src, 20), 2)), Shr(Ind(src, 1), 3))
      [] b = 7  -> Or(Shl(Ind(src, 10), 4), Shr(Ind(src, 18), 1))
      [] b = 6  -> Or(Or(Shl(D(src, 12), 6), Shl(D(src, 16), 1)), Shr(Ind(src, 10), 4))
      [] b = 5  -> Or(Shl(Ind(src, 26), 3), Shr(D(src, 12), 2))
      [] b = 4  -> Or(Shl(Ind(src, 6), 5), Ind(src, 15))
      [] b = 3  -> Or(Or(Shl(D(src, 4), 7), Shl(D(src, 8), 2)), Shr(Ind(src, 6), 3))
      [] b = 2  -> Or(Shl(Ind(src, 30), 4), Shr(D(src, 4), 1))
      [] b = 1  -> Or(Or(Shl(Ind(src, 13), 6), Shl(Ind(src, 22), 1)), Shr(Ind(src, 30), 4))
      [] b = 0  -> Or(Shl(Ind(src, 2), 3), Shr(Ind(src, 13), 2))

\* src[dec[src[p]]] is an index into a slice of len(src) bytes: the Go
\* runtime panics when dec[src[p]] >= len(src)
InRange(src, b) == \A p \in PtrsOf(b) : D(src, p) < Len(src)

\* the check of the last byte at lines 398..400
LastByteOK(t, src) == encoding[Mask(Shl(t[12], 4))] = src[30]

\* assignments to token[b], token[b-1], ..., token[0] (lines 401..414)
RECURSIVE DecodeFrom(_, _, _)
DecodeFrom(t, src, b) ==
    IF b < 0 THEN [token |-> t, ok |-> TRUE, panic |-> FALSE]
    ELSE IF ~InRange(src, b) THEN [token |-> t, ok |-> FALSE, panic |-> TRUE]
    ELSE DecodeFrom([t EXCEPT ![b + 1] = ByteExpr(src, b)], src, b - 1)

\* decode(token, src): the token as left behind, the bool result, and
\* whether the call panicked instead of returning
decodeStrict(t, src) ==
    IF ~InRange(src, 11) THEN [token |-> t, ok |-> FALSE, panic |-> TRUE]
    ELSE LET t11 == [t EXCEPT ![12] = ByteExpr(src, 11)]
             ptrs == [k \in 1..12 |-> D(src, PointerOffsets[k])]
         IN  IF ~LastByteOK(t11, src) THEN [token |-> t11, ok |-> FALSE, panic |-> FALSE]
             ELSE IF {ptrs[k] : k \in 1..12} # {InitialOrderIdxs[k] : k \in 1..12}
                  THEN [token |-> t11, ok |-> FALSE, panic |-> FALSE]
             ELSE DecodeFrom(t11, src, 10)
decode(t, src) ==
    IF ~InRange(src, 11) THEN [token |-> t, ok |-> FALSE, panic |-> TRUE]
    ELSE LET t11 == [t EXCEPT ![12] = ByteExpr(src, 11)]
         IN  IF ~LastByteOK(t11, src) THEN [token |-> t11, ok |-> FALSE, panic |-> FALSE]
             ELSE DecodeFrom(t11, src, 10)

\* (token *Token).UnmarshalText(text): the receiver afterwards, the error,
\* and whether the call panicked
UnmarshalTextResult(t, txt) ==
    IF Len(txt) # encodedLen
    THEN [token |-> t, err |-> "ErrInvalidToken", panic |-> FALSE]
    ELSE IF \E n \in 1..Len(txt) : dec[txt[n]] = 255
    THEN [token |-> t, err |-> "ErrInvalidToken", panic |-> FALSE]
    ELSE LET r == decode(t, txt)
         IN  IF r.panic THEN [token |-> r.token, err |-> "none", panic |-> TRUE]
             ELSE IF ~r.ok THEN [token |-> nilToken, err |-> "ErrInvalidToken", panic |-> FALSE]
             ELSE [token |-> r.token, err |-> "nil", panic |-> FALSE]

(***************************************************************************)
(* Token accessors.                                                        *)
(***************************************************************************)
Counter(t) == t[10] * 65536 + t[11] * 256 + t[12]
Machine(t) == SubSeq(t, 5, 7)
Pid(t) == t[8] * 256 + t[9]
Unix(t) == [hi |-> t[1], lo |-> t[2] * 65536 + t[3] * 256 + t[4]]

\* bytes.Compare on the two 12-byte arrays
Compare(a, b) ==
    IF a = b THEN 0
    ELSE LET n == CHOOSE k \in 1..rawLen :
                      a[k] # b[k] /\ \A m \in 1..(k - 1) : a[m] = b[m]
         IN  IF a[n] < b[n] THEN -1 ELSE 1

(***************************************************************************)
(* The generator.                                                          *)
(*                                                                         *)
(* A uint32 is the record [hi |-> its top 8 bits, lo |-> its low 24 bits], *)
(* so that all 32 bits are kept and no intermediate value exceeds 2^31.   *)
(***************************************************************************)
U32(h, l) == [hi |-> h, lo |-> l]
Goroutines == 1..NumGoroutines

\* atomic.AddUint32(&objectIDCounter, delta): the new value, uint32
AddUint32Stuck(c, delta) == [hi |-> c.hi, lo |-> c.lo]
AddUint32(c, delta) ==
    LET s == c.lo + delta
    IN  [hi |-> (c.hi + (s \div Pow2(24))) % 256, lo |-> s % Pow2(24)]

\* lines 237..246: timestamp, machine id and pid bytes of a fresh token
BuildToken(unix, mid, p) ==
    <<unix.hi, (unix.lo \div 65536) % 256, (unix.lo \div 256) % 256, unix.lo % 256,
      mid[1], mid[2], mid[3],
      (p \div 256) % 256, p % 256,
      0, 0, 0>>

\* lines 249..251: the three counter bytes
SetCounterBroken(t, i) ==
    [t EXCEPT ![10] = (i.lo \div 65536) % 256, ![11] = (i.lo \div 256) % 256,
              ![12] = (i.lo \div 256) % 256]
SetCounter(t, i) ==
    [t EXCEPT ![10] = (i.lo \div 65536) % 256, ![11] = (i.lo \div 256) % 256,
              ![12] = i.lo % 256]

\* inputs of the generator scenarios
StartCounters == {U32(0, 0), U32(0, 4271560), U32(0, Pow2(24) - 2), U32(255, Pow2(24) - 2)}
MachineIDs == {<<96, 244, 134>>, <<0, 0, 0>>}
Pids == {58408, 123456}
\* uint32(t.Unix()) of the times passed: 0 and 1300816219 (0x4d88e15b)
Times == {U32(0, 0), U32(77, 8970587)}

Started == Len(tokens) + Cardinality({g \in Goroutines : pc[g] # "idle"})

CodecIdle ==
    /\ id = nilToken
    /\ orderIdxs = InitialOrderIdxs
    /\ text = <<>>
    /\ recv = nilToken
    /\ err = "none"
    /\ panicked = FALSE

\* The counter is seeded by randInt() with a 24-bit value and only ever
\* incremented, so after enough calls it holds any uint32: StartCounters
\* are values of the counter at the moment observation starts.
InitGen ==
    /\ objectIDCounter \in StartCounters
    /\ start = objectIDCounter
    /\ machineID \in MachineIDs
    /\ pid \in Pids
    /\ pc = [g \in Goroutines |-> "idle"]
    /\ loc = [g \in Goroutines |-> [token |-> nilToken, i |-> U32(0, 0)]]
    /\ obtained = <<>>
    /\ tokens = <<>>
    /\ phase = "gen"
    /\ CodecIdle

\* NewWithTime up to the atomic add: lines 237..246
Call(g, unix) ==
    /\ pc[g] = "idle"
    /\ Started < MaxCalls
    /\ loc' = [loc EXCEPT ![g] = [token |-> BuildToken(unix, machineID, pid), i |-> U32(0, 0)]]
    /\ pc' = [pc EXCEPT ![g] = "add"]
    /\ UNCHANGED <<objectIDCounter, machineID, pid, obtained, tokens, start>>
    /\ UNCHANGED codecVars

\* line 248: i := atomic.AddUint32(&objectIDCounter, 1)
AtomicAddRacy(g) ==
    /\ pc[g] = "add"
    /\ LET i == IF \E h \in Goroutines : pc[h] = "ret"
                THEN loc[CHOOSE h \in Goroutines : pc[h] = "ret"].i
                ELSE AddUint32(objectIDCounter, 1)
       IN  /\ objectIDCounter' = i
           /\ loc' = [loc EXCEPT ![g].i = i]
           /\ obtained' = Append(obtained, i)
    /\ pc' = [pc EXCEPT ![g] = "ret"]
    /\ UNCHANGED <<machineID, pid, tokens, start>>
    /\ UNCHANGED codecVars
AtomicAdd(g) ==
    /\ pc[g] = "add"
    /\ LET i == AddUint32(objectIDCounter, 1)
       IN  /\ objectIDCounter' = i
           /\ loc' = [loc EXCEPT ![g].i = i]
           /\ obtained' = Append(obtained, i)
    /\ pc' = [pc EXCEPT ![g] = "ret"]
    /\ UNCHANGED <<machineID, pid, tokens, start>>
    /\ UNCHANGED codecVars

\* lines 249..252: store the counter bytes and return the token
Return(g) ==
    /\ pc[g] = "ret"
    /\ tokens' = Append(tokens, SetCounter(loc[g].token, loc[g].i))
    /\ pc' = [pc EXCEPT ![g] = "idle"]
    /\ UNCHANGED <<objectIDCounter, machineID, pid, loc, obtained, start>>
    /\ UNCHANGED codecVars

NextGen ==
    \E g \in Goroutines :
        \/ \E unix \in Times : Call(g, unix)
        \/ AtomicAdd(g)
        \/ Return(g)

\* any interleaving of NumGoroutines goroutines
SpecGen == InitGen /\ [][NextGen]_vars

\* one goroutine making its calls one after the other
NextSeq ==
    \/ \E unix \in Times : Call(1, unix)
    \/ AtomicAdd(1)
    \/ Return(1)

SpecSeq == InitGen /\ [][NextSeq]_vars

(***************************************************************************)
(* The codec: String() followed by FromString().                           *)
(***************************************************************************)
Uniform(b) == [n \in 1..rawLen |-> b]

Tokens ==
    { nilToken, Uniform(255), Uniform(85), Uniform(170) }
    \cup { Uniform(Pow2(b)) : b \in 0..7 }
    \cup {
      <<77, 136, 225, 91, 96, 244, 134, 228, 40, 65, 45, 201>>,
      <<0, 0, 0, 0, 170, 187, 204, 221, 238, 0, 0, 1>>,
      <<1, 2, 4, 8, 16, 32, 64, 128, 15, 240, 51, 204>> }

GenIdle ==
    /\ objectIDCounter = U32(0, 0)
    /\ start = U32(0, 0)
    /\ machineID = <<0, 0, 0>>
    /\ pid = 0
    /\ pc = [g \in Goroutines |-> "idle"]
    /\ loc = [g \in Goroutines |-> [token |-> nilToken, i |-> U32(0, 0)]]
    /\ obtained = <<>>
    /\ tokens = <<>>

InitCodec ==
    /\ id \in Tokens
    /\ orderIdxs = InitialOrderIdxs
    /\ text = <<>>
    /\ recv = nilToken
    /\ err = "none"
    /\ panicked = FALSE
    /\ phase = "new"
    /\ GenIdle

\* token.String(): encode with the permutation the shuffle produced
String ==
    /\ phase = "new"
    /\ \E ord \in ShuffleOutcomes :
           /\ orderIdxs' = ord
           /\ text' = encode(id, ord)
    /\ phase' = "encoded"
    /\ UNCHANGED <<id, recv, err, panicked>>
    /\ UNCHANGED genVars

\* FromString(text): UnmarshalText on a fresh zero Token, whose value is
\* returned to the caller together with the error; a call that panics
\* returns nothing
FromString ==
    /\ phase \in {"encoded", "input"}
    /\ LET r == UnmarshalTextResult(nilToken, text)
       IN  /\ recv' = IF r.panic THEN recv ELSE r.token
           /\ err' = r.err
           /\ panicked' = r.panic
    /\ phase' = "decoded"
    /\ UNCHANGED <<id, orderIdxs, text>>
    /\ UNCHANGED genVars

NextCodec == String \/ FromString

SpecCodec == InitCodec /\ [][NextCodec]_vars

(***************************************************************************)
(* Properties of the codec.                                                *)
(***************************************************************************)
Encoded == phase \in {"encoded", "decoded"} /\ Len(text) = encodedLen /\ id \in Tokens

CandidateSet == {InitialOrderIdxs[k] : k \in 1..12}
PointerSet == {PointerOffsets[k] : k \in 1..12}
\* the data statement (0..19) that writes mobile group m (1..12)
MobileStmt(m) == CHOOSE k \in 0..19 : DataOffset(InitialOrderIdxs, k) = InitialOrderIdxs[m]
AnchorStmts == (0..19) \ {MobileStmt(m) : m \in 1..12}
AnchorSet == {DataOffset(InitialOrderIdxs, k) : k \in AnchorStmts}

\* bit n (0 = most significant bit of byte 0) of the 96-bit stream, zero
\* beyond its end, and the k-th 5-bit group of that stream
StreamBit(t, n) == IF n >= 8 * rawLen THEN 0 ELSE Bit(t[(n \div 8) + 1], 7 - (n % 8))
Group5(t, k) ==
    16 * StreamBit(t, 5 * k) + 8 * StreamBit(t, 5 * k + 1) + 4 * StreamBit(t, 5 * k + 2)
    + 2 * StreamBit(t, 5 * k + 3) + StreamBit(t, 5 * k + 4)

\* C1: FromString(V.String()) returns exactly V and a nil error, for every
\* token V and every permutation the shuffle draws.
C1_RoundTrip ==
    (phase = "decoded" /\ id \in Tokens) => (recv = id /\ err = "nil" /\ ~panicked)

C1_Witness ==
    /\ phase = "decoded"
    /\ id = <<77, 136, 225, 91, 96, 244, 134, 228, 40, 65, 45, 201>>
    /\ orderIdxs[1] # InitialOrderIdxs[1]
    /\ orderIdxs[12] # InitialOrderIdxs[12]
    /\ recv = id
    /\ err = "nil"

\* C8: in every encode output the anchor, pointer and candidate offsets are
\* pairwise disjoint and cover 0..31, every offset is written exactly once,
\* the character at the pointer offset of mobile group k decodes to the
\* candidate offset that holds group k's data character, and the 12 pointer
\* values are a permutation of the candidate set.
C8_Layout ==
    Encoded =>
            /\ AnchorSet = {4, 8, 12, 16, 20, 24, 28, 29}
            /\ AnchorSet \cap PointerSet = {}
            /\ AnchorSet \cap CandidateSet = {}
            /\ PointerSet \cap CandidateSet = {}
            /\ AnchorSet \cup PointerSet \cup CandidateSet = 0..(encodedLen - 1)
            /\ \A o \in 0..(encodedLen - 1) : Cardinality({n \in 1..32 : WriteOffset(orderIdxs, n) = o}) = 1
            /\ \A m \in 1..12 :
                   /\ D(text, PointerOffsets[m]) = orderIdxs[m]
                   /\ DataOffset(orderIdxs, MobileStmt(m)) = orderIdxs[m]
                   /\ text[orderIdxs[m] + 1] = encoding[DataValue(id, MobileStmt(m))]
            /\ {D(text, PointerOffsets[m]) : m \in 1..12} = CandidateSet
            /\ Cardinality({D(text, PointerOffsets[m]) : m \in 1..12}) = 12

C8_Witness ==
    /\ phase = "encoded"
    /\ orderIdxs[1] = 31
    /\ orderIdxs[12] = 0
    /\ D(text, 2) = 31
    /\ D(text, 25) = 0
    /\ id = Uniform(255)

Edit(txt, o, c) == [txt EXCEPT ![o + 1] = c]

\* characters put into a text: 'a' (index 0), 'q' (32), '_' (63), '!' (not
\* in the alphabet)
EditChars == {97, 113, 95, 33}

RECURSIVE Edited(_, _)
Edited(S, n) ==
    IF n = 0 THEN S
    ELSE LET P == Edited(S, n - 1)
         IN  P \cup {Edit(txt, o, c) : txt \in P, o \in 0..(encodedLen - 1), c \in EditChars}

\* texts of the right length: two outputs of encode, and 'a' or '_'
\* repeated 32 times
BaseTexts ==
    { encode(<<77, 136, 225, 91, 96, 244, 134, 228, 40, 65, 45, 201>>, InitialOrderIdxs),
      encode(Uniform(255), <<31, 27, 23, 21, 19, 17, 11, 9, 7, 5, 3, 0>>),
      [n \in 1..encodedLen |-> 97],
      [n \in 1..encodedLen |-> 95] }

\* texts of a wrong length: empty, one character short, one too many
WrongLengthTexts ==
    {<<>>} \cup {SubSeq(txt, 1, encodedLen - 1) : txt \in BaseTexts}
           \cup {Append(txt, 97) : txt \in BaseTexts}

Texts == Edited(BaseTexts, MaxEdits) \cup WrongLengthTexts

\* values the receiver of UnmarshalText holds before the call
Receivers == {nilToken, <<77, 136, 225, 91, 96, 244, 134, 228, 40, 65, 45, 201>>}

InitDecode ==
    /\ text \in Texts
    /\ recv \in Receivers
    /\ id = nilToken
    /\ orderIdxs = InitialOrderIdxs
    /\ err = "none"
    /\ panicked = FALSE
    /\ phase = "input"
    /\ GenIdle

\* recv.UnmarshalText(text) on the caller's token
UnmarshalText ==
    /\ phase = "input"
    /\ LET r == UnmarshalTextResult(recv, text)
       IN  /\ recv' = r.token
           /\ err' = r.err
           /\ panicked' = r.panic
    /\ phase' = "unmarshalled"
    /\ UNCHANGED <<id, orderIdxs, text>>
    /\ UNCHANGED genVars

NextDecode == FromString \/ UnmarshalText

SpecDecode == InitDecode /\ [][NextDecode]_vars

Done == phase \in {"decoded", "unmarshalled"}
AlphabetOnly(txt) == \A n \in 1..Len(txt) : dec[txt[n]] # 255
WellFormed(txt) == Len(txt) = encodedLen /\ AlphabetOnly(txt)
PointerValues(txt) == [m \in 1..12 |-> D(txt, PointerOffsets[m])]
PointersInRange(txt) == \A m \in 1..12 : D(txt, PointerOffsets[m]) < encodedLen
PointersPermute(txt) ==
    /\ {D(txt, PointerOffsets[m]) : m \in 1..12} = CandidateSet
    /\ Cardinality({D(txt, PointerOffsets[m]) : m \in 1..12}) = 12

\* txt is encode(V, p) for some token V and some permutation p of the
\* candidate offsets.  By C8 p is then the pointer values of txt and by C1
\* V is what decode makes of txt, so it is enough to encode that token
\* again with that order and to compare.
IsEncodeOutput(txt) ==
    /\ WellFormed(txt)
    /\ PointersPermute(txt)
    /\ \E r \in {decode(nilToken, txt)} :
           /\ r.ok
           /\ encode(r.token, PointerValues(txt)) = txt

\* the character at offset 29 differs from the re-encoding of the final
\* group: of the one derived from byte 11 when byte 11 can be derived, of
\* every possible one (indices 0, 16, 32, 48) otherwise
LastAnchorMismatch(txt) ==
    IF D(txt, 25) < encodedLen
    THEN ~LastByteOK([nilToken EXCEPT ![12] = ByteExpr(txt, 11)], txt)
    ELSE D(txt, 29) % 16 # 0

\* C2 as stated: decoding a 32-character alphabet-only text never ends in
\* a panic; it returns a nil error or ErrInvalidToken.
C2_NoPanic ==
    (Done /\ WellFormed(text)) => (~panicked /\ err \in {"nil", "ErrInvalidToken"})

\* C3 as stated: whenever decoding fails with ErrInvalidToken the caller's
\* token is all zero afterwards, also a receiver of UnmarshalText.
C3_ZeroOnError ==
    (Done /\ err = "ErrInvalidToken") => recv = nilToken

\* C7 as stated: ErrInvalidToken is returned for every text of a wrong
\* length, every 32-character text with a character outside the alphabet
\* and every 32-character alphabet text whose character at offset 29 is not
\* the re-encoding of the final group.
C7_Rejects ==
    (Done /\ (~WellFormed(text) \/ LastAnchorMismatch(text)))
        => (err = "ErrInvalidToken" /\ ~panicked)

\* C10: the integrity check is partial: 32-character alphabet texts that
\* are no output of encode (their pointer characters are no permutation of
\* the candidate set, or a data character is not the one encode writes) are
\* accepted with a nil error as soon as their pointer characters are
\* offsets within the text and the character at offset 29 is consistent.
C10_PartialCheck ==
    (Done /\ WellFormed(text) /\ PointersInRange(text) /\ ~LastAnchorMismatch(text)
          /\ ~IsEncodeOutput(text))
        => (err = "nil" /\ ~panicked)

\* 'a' repeated 32 times: every pointer is offset 0; decoded to the zero token
C10_Witness ==
    /\ phase = "decoded"
    /\ text = [n \in 1..encodedLen |-> 97]
    /\ WellFormed(text)
    /\ ~PointersPermute(text)
    /\ ~IsEncodeOutput(text)
    /\ err = "nil"
    /\ recv = nilToken

(***************************************************************************)
(* Properties of the generator.                                            *)
(***************************************************************************)
\* the counter values held by calls that have passed the atomic add: in the
\* tokens already returned, or still in the local i of a goroutine
InFlight == {g \in Goroutines : pc[g] = "ret"}

\* c + k modulo 2^32 for 0 <= k < 2^24, on the hi/lo form of a uint32
Plus32(c, k) ==
    IF c.lo + k < Pow2(24) THEN [hi |-> c.hi, lo |-> c.lo + k]
    ELSE [hi |-> IF c.hi = 255 THEN 0 ELSE c.hi + 1, lo |-> c.lo + k - Pow2(24)]

\* C4: under any interleaving of concurrent NewWithTime calls no two calls
\* obtain the same counter value, no increment is lost and the values are
\* consecutive: after n adds from counter value c the values obtained are
\* exactly {c+1, ..., c+n} modulo 2^32, and each token carries the low 24
\* bits of the value its call obtained.
C4_AtomicCounter ==
    phase = "gen" =>
        LET n == Len(obtained)
        IN  /\ \A a, b \in 1..n : a # b => obtained[a] # obtained[b]
            /\ {obtained[k] : k \in 1..n} = {Plus32(start, k) : k \in 1..n}
            /\ objectIDCounter = Plus32(start, n)
            /\ Len(tokens) + Cardinality(InFlight) = n
            /\ \A g \in InFlight : \E k \in 1..n : loc[g].i = obtained[k]
            /\ Cardinality({Counter(tokens[k]) : k \in 1..Len(tokens)}
                           \cup {loc[g].i.lo : g \in InFlight}) = n
            /\ {Counter(tokens[k]) : k \in 1..Len(tokens)}
                   \cup {loc[g].i.lo : g \in InFlight}
               = {obtained[k].lo : k \in 1..n}

\* two goroutines overtake each other across the overflow of the counter
C4_Witness ==
    /\ phase = "gen"
    /\ start = U32(255, Pow2(24) - 2)
    /\ Len(tokens) >= 2
    /\ Counter(tokens[1]) = 0
    /\ Counter(tokens[2]) = Pow2(24) - 1
    /\ objectIDCounter = U32(0, 0)

C6_Unique ==
    phase = "gen" =>
        \A a, b \in 1..Len(tokens) : a # b => Compare(tokens[a], tokens[b]) # 0

C6_Witness ==
    /\ phase = "gen"
    /\ Len(tokens) >= 3
    /\ Unix(tokens[1]) = Unix(tokens[2])
    /\ Unix(tokens[2]) = Unix(tokens[3])
    /\ Compare(tokens[1], tokens[2]) = 1
    /\ Compare(tokens[2], tokens[3]) = -1

====
